---- MODULE Spec2Model ----
(***************************************************************************)
(* speculum: configuration resolution, mirror filtering, sorting and       *)
(* limiting (src/speculum/*.py), as state machines.                         *)
(*                                                                         *)
(* Python values.  An optional value is None or a one-element tuple        *)
(* holding the value.  Strings are strings; the raw text of a list-valued  *)
(* configuration key is a sequence of lexemes (words, "," and " ").        *)
(* Durations (timedelta) and instants (datetime) are whole hours; floats   *)
(* are scaled to integers (completion_pct and score in hundredths).        *)
(* A call that may raise returns [raised, value]: raised = "" on return.   *)
(*                                                                         *)
(* The feed.  main takes len() of what get_mirrors returns and the max_age *)
(* filter reads the age of a mirror, so the feed of a run is the list      *)
(* archlinux.get_mirrors returns, with the ages set_ages sets; the stages  *)
(* after it are those of main.py.                                          *)
(***************************************************************************)
EXTENDS Integers, Sequences, FiniteSets, TLC

VARIABLES
    pc,        \* position of the modelled program
    args,      \* argparse Namespace: the flags, and args.config (the parsed file)
    config,    \* the resolved Configuration (main.py:69)
    raised,    \* "" or the name of the exception that ended the program
    returned,  \* None, or the value main returned (the exit code)
    feed,      \* the mirrors in feed order, as get_mirrors returned them
    mirrors,   \* main's variable mirrors
    filtered,  \* whether the lazy filter over mirrors has been consumed
    mirror,    \* the mirror a filter function was applied to
    called,    \* the filter function that was called last
    outcome,   \* what that call returned or raised
    keys,      \* the sort keys computed so far, one per mirror
    warned,    \* the set warned of the key function (sorting.py:14)
    log,       \* the records logged so far
    maximum,   \* the maximum given to limit
    gen,       \* the state of the generator limit returned
    lines,     \* the lines handed to the sink
    settings   \* the Configurations given to a merge, and those still to merge

vars ==
    <<pc, args, config, raised, returned, feed, mirrors, filtered, mirror,
      called, outcome, keys, warned, log, maximum, gen, lines, settings>>

None == <<>>
Some(v) == <<v>>

\* ------------------------------------------------------------------ bounds

\* the longest feed
MaxMirrors == 3
\* the longest list of sort options
MaxSort == 2
\* the largest maximum given to limit
MaxLimit == 4
\* the most keys in a configuration file
MaxKeys == 2

\* ---------------------------------------------------------- string tables

\* str.casefold on the strings of the model
casefold(s) ==
    CASE s = "DE" -> "de"
      [] s = "US" -> "us"
      [] s = "De" -> "de"
      [] s = "Germany" -> "germany"
      [] s = "GERMANY" -> "germany"
      [] s = "United States" -> "united states"
      [] s = "HTTPS" -> "https"
      [] s = "Score" -> "score"
      [] s = "True" -> "true"
      [] OTHER -> s

\* str.strip on a sequence of lexemes: leading and trailing blanks removed
RECURSIVE lstrip(_)
lstrip(lex) ==
    IF lex # <<>> /\ Head(lex) = " " THEN lstrip(Tail(lex)) ELSE lex

RECURSIVE rstrip(_)
rstrip(lex) ==
    IF lex # <<>> /\ lex[Len(lex)] = " "
    THEN rstrip(SubSeq(lex, 1, Len(lex) - 1))
    ELSE lex

strip(lex) == rstrip(lstrip(lex))

\* the string a sequence of lexemes spells
RECURSIVE join(_)
join(lex) == IF lex = <<>> THEN "" ELSE Head(lex) \o join(Tail(lex))

\* str.split(sep) on a sequence of lexemes: the pieces between separators,
\* empty pieces kept
RECURSIVE split_sep(_, _, _)
split_sep(lex, sep, piece) ==
    IF lex = <<>> THEN <<piece>>
    ELSE IF Head(lex) = sep
         THEN <<piece>> \o split_sep(Tail(lex), sep, <<>>)
         ELSE split_sep(Tail(lex), sep, Append(piece, Head(lex)))

\* str.split() on a sequence of lexemes: the words between runs of blanks,
\* no empty piece
RECURSIVE split_ws(_, _)
split_ws(lex, piece) ==
    IF lex = <<>> THEN (IF piece = <<>> THEN <<>> ELSE <<piece>>)
    ELSE IF Head(lex) = " "
         THEN (IF piece = <<>> THEN <<>> ELSE <<piece>>)
              \o split_ws(Tail(lex), <<>>)
         ELSE split_ws(Tail(lex), Append(piece, Head(lex)))

\* int(string): the integer a text spells, ValueError otherwise
int(string) ==
    CASE string = "0" -> [raised |-> "", value |-> 0]
      [] string = "1" -> [raised |-> "", value |-> 1]
      [] string = "2" -> [raised |-> "", value |-> 2]
      [] string = "5" -> [raised |-> "", value |-> 5]
      [] string = "24" -> [raised |-> "", value |-> 24]
      [] string = "-1" -> [raised |-> "", value |-> 0 - 1]
      [] OTHER -> [raised |-> "ValueError", value |-> 0]

\* ConfigParser.BOOLEAN_STATES, as getboolean reads a text (lower-cased)
getboolean_text(string) ==
    CASE casefold(string) \in {"1", "yes", "true", "on"} ->
            [raised |-> "", value |-> TRUE]
      [] casefold(string) \in {"0", "no", "false", "off"} ->
            [raised |-> "", value |-> FALSE]
      [] OTHER -> [raised |-> "ValueError", value |-> FALSE]

\* re.compile: whether a pattern text is a valid regular expression
re_valid(regex) == regex \notin {"(", "[a"}

\* Pattern.search: the (pattern, url) pairs of the model where re.search
\* finds a match
SearchTable ==
    { <<"de", "https://mirror.de/arch/">>,
      <<"de", "rsync://de.mirror.org/">>,
      <<"^https", "https://mirror.de/arch/">>,
      <<"^https", "https://mirror.us/arch/">> }

search(regex, url) == <<regex, url>> \in SearchTable

\* ------------------------------------------------------ config.py: fields

\* the fields of Configuration, in the order of the NamedTuple
Fields ==
    <<"sort", "reverse", "countries", "protocols", "max_age", "match",
      "nomatch", "complete", "active", "ipv4", "ipv6", "isos", "limit",
      "header", "output">>

BoolFields == {"reverse", "complete", "active", "ipv4", "ipv6", "isos", "header"}
ListFields == {"sort", "countries", "protocols"}
IntFields == {"max_age", "limit"}

\* bool(value) of a field's value: None, False, an empty list, 0 and
\* timedelta(0) are falsy; a Pattern, a non-empty str and a Path are truthy
truthy(field, value) ==
    IF field \in BoolFields THEN value
    ELSE IF value = None THEN FALSE
    ELSE IF field \in ListFields THEN Len(value[1]) > 0
    ELSE IF field \in IntFields THEN value[1] # 0
    ELSE IF field \in {"match", "nomatch"}
         THEN value[1].class = "Pattern" \/ value[1].pattern # ""
    ELSE TRUE

\* "o or s" had it been "o if o is not None else s"
or_if_not_none(field, o, s) ==
    IF field \in BoolFields \/ o # None THEN o ELSE s

\* "o or s"
or(field, o, s) == IF truthy(field, o) THEN o ELSE s

\* Configuration.update: type(self)(*(o or s for s, o in zip(self, other)))
update(self, other) ==
    [field \in DOMAIN self |-> or(field, other[field], self[field])]

\* the merge of load (config.py:134): the settings of y overridden by
\* those of x, y.update(x)
resolve(x, y) == update(y, x)

\* Configuration.from_args: the fields of the Namespace, one by one
from_args(a) ==
    [sort |-> a.sort, reverse |-> a.reverse, countries |-> a.countries,
     protocols |-> a.protocols, max_age |-> a.max_age, match |-> a.match,
     nomatch |-> a.nomatch, complete |-> a.complete, active |-> a.active,
     ipv4 |-> a.ipv4, ipv6 |-> a.ipv6, isos |-> a.isos, limit |-> a.limit,
     header |-> a.header, output |-> a.output]

\* ------------------------------------------------ config.py: file readers

\* ConfigParser.get(section, key, fallback=None): a parser is a function
\* from the <<section, key>> pairs the file holds to their raw text
get(parser, section, key) ==
    IF <<section, key>> \in DOMAIN parser
    THEN Some(parser[<<section, key>>])
    ELSE None

\* the list of casefold strings of a comprehension over pieces
RECURSIVE cistrings_of(_, _)
cistrings_of(pieces, stripped) ==
    IF pieces = <<>> THEN <<>>
    ELSE <<casefold(join(IF stripped THEN strip(Head(pieces)) ELSE Head(pieces)))>>
         \o cistrings_of(Tail(pieces), stripped)

\* get_cistrings: [] when the key is missing or empty, else the casefold
\* pieces, split by comma if there is one and by whitespace otherwise
get_cistrings(parser, section, key) ==
    LET string == get(parser, section, key) IN
    IF string # None /\ string[1] # <<>>
    THEN IF \E i \in 1..Len(string[1]) : string[1][i] = ","
         THEN cistrings_of(split_sep(string[1], ",", <<>>), TRUE)
         ELSE cistrings_of(split_ws(string[1], <<>>), FALSE)
    ELSE <<>>

\* ConfigParser.getint(section, key, fallback=None)
getint(parser, section, key) ==
    LET string == get(parser, section, key) IN
    IF string = None THEN [raised |-> "", value |-> None]
    ELSE LET i == int(string[1]) IN
         [raised |-> i.raised, value |-> Some(i.value)]

\* ConfigParser.getboolean(section, key, fallback=False)
getboolean(parser, section, key) ==
    LET string == get(parser, section, key) IN
    IF string = None THEN [raised |-> "", value |-> FALSE]
    ELSE getboolean_text(string[1])

\* get_hours: timedelta(hours=hours) if the key holds an integer
get_hours(parser, section, key) == getint(parser, section, key)

\* get_path: Path(path) if the key holds a non-empty text
get_path(parser, section, key) ==
    LET path == get(parser, section, key) IN
    IF path # None /\ path[1] # "" THEN path ELSE None

\* get_regex: the compiled pattern; None when the key is missing or empty,
\* and None (after an error is logged) when the text does not compile
get_regex(parser, section, key) ==
    LET regex == get(parser, section, key) IN
    IF regex # None /\ regex[1] # ""
    THEN IF re_valid(regex[1])
         THEN Some([class |-> "Pattern", pattern |-> regex[1]])
         ELSE None
    ELSE None

\* the first exception among the results of calls made in order
RECURSIVE first_raised(_)
first_raised(results) ==
    IF results = <<>> THEN ""
    ELSE IF Head(results).raised # "" THEN Head(results).raised
    ELSE first_raised(Tail(results))

\* Configuration.from_parser: the fields read from the file in order; a
\* getboolean or getint that raises ends the construction
from_parser(parser) ==
    LET reverse == getboolean(parser, "sorting", "reverse")
        max_age == get_hours(parser, "filtering", "max_age")
        complete == getboolean(parser, "filtering", "complete")
        active == getboolean(parser, "filtering", "active")
        ipv4 == getboolean(parser, "filtering", "ipv4")
        ipv6 == getboolean(parser, "filtering", "ipv6")
        isos == getboolean(parser, "filtering", "isos")
        limit == getint(parser, "output", "limit")
        header == getboolean(parser, "output", "header")
    IN  [raised |-> first_raised(<<reverse, max_age, complete, active, ipv4,
                                   ipv6, isos, limit, header>>),
         value |->
            [sort |-> Some(get_cistrings(parser, "sorting", "sort")),
             reverse |-> reverse.value,
             countries |-> Some(get_cistrings(parser, "filtering", "countries")),
             protocols |-> Some(get_cistrings(parser, "filtering", "protocols")),
             max_age |-> max_age.value,
             match |-> get_regex(parser, "filtering", "match"),
             nomatch |-> get_regex(parser, "filtering", "nomatch"),
             complete |-> complete.value,
             active |-> active.value,
             ipv4 |-> ipv4.value,
             ipv6 |-> ipv6.value,
             isos |-> isos.value,
             limit |-> limit.value,
             header |-> header.value,
             output |-> get_path(parser, "output", "file")]]

\* Configuration.load: the flags alone without a file, else the file's
\* configuration updated by the flags
load(a) ==
    LET flags == from_args(a) IN
    IF a.config # None
    THEN LET file == from_parser(a.config[1]) IN
         [raised |-> file.raised,
          value |-> IF file.raised = "" THEN update(file.value, flags) ELSE flags]
    ELSE [raised |-> "", value |-> flags]

\* ------------------------------------------------- typed Python values

\* float('inf'), above every finite number of the model
inf == 1000000

PyBool(b) == [type |-> "bool", num |-> IF b THEN 1 ELSE 0, str |-> ""]
PyInt(n) == [type |-> "int", num |-> n, str |-> ""]
PyFloat(n) == [type |-> "float", num |-> n, str |-> ""]
PyStr(s) == [type |-> "str", num |-> 0, str |-> s]
Timedelta(hours) == [type |-> "timedelta", num |-> hours, str |-> ""]
NoneValue == [type |-> "NoneType", num |-> 0, str |-> ""]

Numbers == {"bool", "int", "float"}

\* the strings of the model in the order of str.__lt__ (code points)
StrOrder ==
    <<"", "1970-01-04T04:00:00Z", "1970-01-05T03:00:00.000Z", "DE", "Germany",
      "US", "United States", "http", "http://mirror.org/arch/", "https",
      "https://mirror.de/arch/", "https://mirror.us/arch/", "rsync",
      "rsync://de.mirror.org/", "~">>

StrRank(s) == CHOOSE i \in 1..Len(StrOrder) : StrOrder[i] = s

\* x == y
py_eq(x, y) ==
    CASE x.type \in Numbers /\ y.type \in Numbers -> x.num = y.num
      [] x.type # y.type -> FALSE
      [] x.type = "str" -> x.str = y.str
      [] OTHER -> x.num = y.num

\* whether x < y and x <= y are defined: between numbers, between strings
\* and between timedeltas; anything else raises TypeError
comparable(x, y) ==
    \/ x.type \in Numbers /\ y.type \in Numbers
    \/ x.type = "str" /\ y.type = "str"
    \/ x.type = "timedelta" /\ y.type = "timedelta"

\* x < y, where it is defined
py_lt(x, y) ==
    IF x.type = "str" THEN StrRank(x.str) < StrRank(y.str) ELSE x.num < y.num

\* x <= y
py_le(x, y) ==
    IF comparable(x, y)
    THEN [raised |-> "", value |-> py_lt(x, y) \/ py_eq(x, y)]
    ELSE [raised |-> "TypeError", value |-> FALSE]

\* a function's return value, as the truth value the caller tests
Return(b) == [raised |-> "", value |-> b]
Raise(exception) == [raised |-> exception, value |-> FALSE]

\* ------------------------------------------------------------ filtering.py

\* "string in list"
in(string, list) == \E i \in 1..Len(list) : list[i] = string

\* match_country had it looked at the country name alone
match_country_by_name(c, m) ==
    IF c.countries = None THEN Return(TRUE)
    ELSE IF /\ m.country # None /\ m.country[1] # ""
            /\ in(casefold(m.country[1]), c.countries[1])
         THEN Return(TRUE)
    ELSE Return(FALSE)

\* a mirror is a record of optional values: mirror.get(key) is mirror[key]
match_country(c, m) ==
    IF c.countries = None THEN Return(TRUE)
    ELSE IF /\ m.country # None /\ m.country[1] # ""
            /\ in(casefold(m.country[1]), c.countries[1])
         THEN Return(TRUE)
    ELSE IF /\ m.country_code # None /\ m.country_code[1] # ""
            /\ in(casefold(m.country_code[1]), c.countries[1])
         THEN Return(TRUE)
    ELSE Return(FALSE)

match_protocols(c, m) ==
    IF c.protocols = None THEN Return(TRUE)
    ELSE IF m.protocol # None /\ m.protocol[1] # ""
         THEN Return(in(casefold(m.protocol[1]), c.protocols[1]))
    ELSE Return(FALSE)

\* "if age := mirror.get('age') is not None" binds age to the truth value
\* of the test, which is then compared with the timedelta
match_max_age(c, m) ==
    LET age == PyBool(m.age # None) IN
    IF c.max_age = None THEN Return(TRUE)
    ELSE IF age.num = 1 THEN py_le(age, Timedelta(c.max_age[1]))
    ELSE Return(FALSE)

\* config.match.search(url): a str has no search
pattern_search(pattern, url) ==
    IF pattern.class = "Pattern"
    THEN Return(search(pattern.pattern, url))
    ELSE Raise("AttributeError")

match_regex(c, m) ==
    IF c.match = None THEN Return(TRUE)
    ELSE IF m.url # None /\ m.url[1] # ""
         THEN pattern_search(c.match[1], m.url[1])
    ELSE Return(FALSE)

match_regex_inv(c, m) ==
    IF c.nomatch = None THEN Return(TRUE)
    ELSE IF m.url # None /\ m.url[1] # ""
         THEN pattern_search(c.nomatch[1], m.url[1])
    ELSE Return(FALSE)

match_complete(c, m) ==
    IF ~c.complete THEN Return(TRUE)
    ELSE Return(m.completion_pct # None /\ m.completion_pct[1] = 100)

match_active(c, m) ==
    IF ~c.active THEN Return(TRUE)
    ELSE Return(m.active # None /\ m.active[1])

match_ipv4(c, m) ==
    IF ~c.ipv4 THEN Return(TRUE)
    ELSE Return(m.ipv4 # None /\ m.ipv4[1])

match_ipv6(c, m) ==
    IF ~c.ipv6 THEN Return(TRUE)
    ELSE Return(m.ipv6 # None /\ m.ipv6[1])

match_isos(c, m) ==
    IF ~c.isos THEN Return(TRUE)
    ELSE Return(m.isos # None /\ m.isos[1])

MATCH_FUNCS ==
    <<"match_country", "match_protocols", "match_max_age", "match_regex",
      "match_regex_inv", "match_complete", "match_active", "match_ipv4",
      "match_ipv6", "match_isos">>

\* match_func(config, mirror) for the function of that name
call_match_func(match_func, c, m) ==
    CASE match_func = "match_country" -> match_country(c, m)
      [] match_func = "match_protocols" -> match_protocols(c, m)
      [] match_func = "match_max_age" -> match_max_age(c, m)
      [] match_func = "match_regex" -> match_regex(c, m)
      [] match_func = "match_regex_inv" -> match_regex_inv(c, m)
      [] match_func = "match_complete" -> match_complete(c, m)
      [] match_func = "match_active" -> match_active(c, m)
      [] match_func = "match_ipv4" -> match_ipv4(c, m)
      [] match_func = "match_ipv6" -> match_ipv6(c, m)
      [] match_func = "match_isos" -> match_isos(c, m)

\* all(match_func(config, mirror) for match_func in funcs): the functions
\* are called in order up to the first that returns false or raises
RECURSIVE all(_, _, _)
all(funcs, c, m) ==
    IF funcs = <<>> THEN Return(TRUE)
    ELSE LET result == call_match_func(Head(funcs), c, m) IN
         IF result.raised # "" THEN result
         ELSE IF ~result.value THEN Return(FALSE)
         ELSE all(Tail(funcs), c, m)

match(c, m) == all(MATCH_FUNCS, c, m)

\* MATCH_FUNCS with the functions at places i and j exchanged
exchange(funcs, i, j) ==
    [n \in 1..Len(funcs) |->
        IF n = i THEN funcs[j] ELSE IF n = j THEN funcs[i] ELSE funcs[n]]

\* the orders of MATCH_FUNCS that differ from it by one exchange; all stops
\* at the first function that returns false or raises, and every function
\* is the first of one of these orders
Orders ==
    {exchange(MATCH_FUNCS, i, j) : i, j \in 1..Len(MATCH_FUNCS)}

\* ------------------------------------------------------------ archlinux.py

\* parsers.parse_datetime: the instant a last_sync stamp names, in hours
\* since the epoch, with or without a fraction of seconds
parse_datetime(string) ==
    CASE string = "1970-01-04T04:00:00Z" -> [raised |-> "", value |-> 3 * 24 + 4]
      [] string = "1970-01-05T03:00:00.000Z" -> [raised |-> "", value |-> 4 * 24 + 3]
      [] OTHER -> [raised |-> "ValueError", value |-> 0]

\* datetime.now() of the run
now == 4 * 24 + 4

\* set_ages: mirror['age'] = now - last_sync, with the epoch for a mirror
\* without last_sync
age_of(m) ==
    IF m.last_sync # None /\ m.last_sync[1] # ""
    THEN now - parse_datetime(m.last_sync[1]).value
    ELSE now - 0

set_ages(list) ==
    [raised |->
        IF \E i \in 1..Len(list) :
              /\ list[i].last_sync # None /\ list[i].last_sync[1] # ""
              /\ parse_datetime(list[i].last_sync[1]).raised # ""
        THEN "ValueError" ELSE "",
     value |-> [i \in 1..Len(list) |-> [list[i] EXCEPT !.age = Some(age_of(list[i]))]]]

\* --------------------------------------------------------------- logging

\* error had it logged at the level of warning
error_as_warning(message, arg) == [level |-> "WARNING", message |-> message, arg |-> arg]

error(message, arg) == [level |-> "ERROR", message |-> message, arg |-> arg]
warning(message, arg) == [level |-> "WARNING", message |-> message, arg |-> arg]
info(message, arg) == [level |-> "INFO", message |-> message, arg |-> arg]

\* what get_regex logs: LOGGER.error('Invalid regular expression: %s', regex)
\* when the text does not compile
get_regex_log(parser, section, key) ==
    LET regex == get(parser, section, key) IN
    IF regex # None /\ regex[1] # "" /\ ~re_valid(regex[1])
    THEN <<error("Invalid regular expression", regex[1])>>
    ELSE <<>>

\* what from_parser logs: match and nomatch are read after reverse and
\* max_age, which may raise before
from_parser_log(parser) ==
    IF \/ getboolean(parser, "sorting", "reverse").raised # ""
       \/ get_hours(parser, "filtering", "max_age").raised # ""
    THEN <<>>
    ELSE get_regex_log(parser, "filtering", "match")
         \o get_regex_log(parser, "filtering", "nomatch")

\* what Configuration.load logs
load_log(a) == IF a.config # None THEN from_parser_log(a.config[1]) ELSE <<>>

\* -------------------------------------------------------------- sorting.py

\* main.py SORTING_DEFAULTS
SORTING_DEFAULTS ==
    [url |-> PyStr(""), protocol |-> PyStr("~"), last_sync |-> PyStr("~"),
     completion_pct |-> PyInt(0), delay |-> PyFloat(inf),
     duration_avg |-> PyFloat(inf), duration_stddev |-> PyFloat(inf),
     score |-> PyFloat(inf), country |-> PyStr("~"),
     country_code |-> PyStr("~"), age |-> NoneValue]

\* the typed value of mirror.get(option)
field_value(m, option) ==
    IF m[option] = None THEN NoneValue
    ELSE IF option \in {"url", "protocol", "last_sync", "country", "country_code"}
         THEN PyStr(m[option][1])
    ELSE IF option = "age" THEN Timedelta(m[option][1])
    ELSE IF option \in {"delay", "completion_pct"} THEN PyInt(m[option][1])
    ELSE PyFloat(m[option][1])

\* "if value := mirror.get(option) is not None" binds value to the truth
\* value of the test; that is what is appended to the key
key_component(m, option, default) ==
    LET value == PyBool(m[option] # None) IN
    IF value.num = 1 THEN value ELSE default

\* get_key, from the options still to visit: the closure's state is the
\* key built so far, the set warned and the warnings logged
RECURSIVE get_key_loop(_, _, _, _)
get_key_loop(sorting, defaults, m, state) ==
    IF sorting = <<>> THEN state
    ELSE LET option == Head(sorting) IN
         IF option \notin DOMAIN defaults
         THEN get_key_loop(Tail(sorting), defaults, m,
                 IF option \notin state.warned
                 THEN [state EXCEPT !.log = Append(@, warning("Invalid sorting key", option)),
                                    !.warned = @ \cup {option}]
                 ELSE state)
         ELSE get_key_loop(Tail(sorting), defaults, m,
                 [state EXCEPT !.key =
                     Append(@, key_component(m, option, defaults[option]))])

\* get_key had it kept no set of the names it has warned about
get_key_without_warned(sorting, defaults, m, was_warned, logged) ==
    get_key_loop(sorting, defaults, m,
                 [key |-> <<>>, warned |-> {}, log |-> logged])

\* one call of the function get_sorting_key returned
get_key(sorting, defaults, m, was_warned, logged) ==
    get_key_loop(sorting, defaults, m,
                 [key |-> <<>>, warned |-> was_warned, log |-> logged])

\* the first index where two tuples differ, 0 when there is none
first_difference(k1, k2) ==
    IF \E i \in 1..Len(k1) : ~py_eq(k1[i], k2[i])
    THEN CHOOSE i \in 1..Len(k1) :
            /\ ~py_eq(k1[i], k2[i])
            /\ \A j \in 1..(i - 1) : py_eq(k1[j], k2[j])
    ELSE 0

\* tuple.__lt__ on keys of one length: decided by the first components
\* that differ, and TypeError when those cannot be compared
tuple_lt(k1, k2) ==
    LET i == first_difference(k1, k2) IN
    IF i = 0 THEN Return(FALSE)
    ELSE IF comparable(k1[i], k2[i]) THEN Return(py_lt(k1[i], k2[i]))
    ELSE Raise("TypeError")

\* goes_before had reverse been the ascending order read backwards: equal
\* keys then come out in the opposite of their order of arrival
goes_before_backwards(kx, ky, reverse) ==
    IF reverse THEN ~tuple_lt(kx, ky).value ELSE tuple_lt(kx, ky).value

\* whether x, met after the elements of the sorted list, goes before y
goes_before(kx, ky, reverse) ==
    IF reverse THEN tuple_lt(ky, kx).value ELSE tuple_lt(kx, ky).value

RECURSIVE insert(_, _, _, _)
insert(sorted_list, x, ks, reverse) ==
    IF sorted_list = <<>> THEN <<x>>
    ELSE IF goes_before(ks[x], ks[Head(sorted_list)], reverse)
         THEN <<x>> \o sorted_list
         ELSE <<Head(sorted_list)>> \o insert(Tail(sorted_list), x, ks, reverse)

RECURSIVE sort_indices(_, _, _)
sort_indices(n, ks, reverse) ==
    IF n = 0 THEN <<>>
    ELSE insert(sort_indices(n - 1, ks, reverse), n, ks, reverse)

\* sorted had it returned the list as it came
sorted_as_it_came(list, ks, reverse) == [raised |-> "", value |-> list]

\* sorted(mirrors, key=key, reverse=reverse), given the keys of the mirrors:
\* the stable sort, ascending or (reverse) descending, equal keys in their
\* order of arrival either way; TypeError when two of the keys cannot be
\* compared
sorted(list, ks, reverse) ==
    IF \E i, j \in 1..Len(list) : tuple_lt(ks[i], ks[j]).raised # ""
    THEN [raised |-> "TypeError", value |-> list]
    ELSE LET order == sort_indices(Len(list), ks, reverse) IN
         [raised |-> "", value |-> [i \in 1..Len(list) |-> list[order[i]]]]

\* ------------------------------------------------------------- limiting.py

\* limit_next had it read its source to the end once over the maximum
limit_next_to_the_end(list, max, g) ==
    IF g.done THEN g
    ELSE IF g.count = Len(list) THEN [g EXCEPT !.done = TRUE]
    ELSE IF max # None /\ g.count + 1 > max[1]
         THEN [g EXCEPT !.count = Len(list), !.done = TRUE]
    ELSE [g EXCEPT !.count = @ + 1, !.yielded = Append(@, list[g.count + 1])]

\* limit_next had the test been "count >= maximum"
limit_next_early(list, max, g) ==
    IF g.done THEN g
    ELSE IF g.count = Len(list) THEN [g EXCEPT !.done = TRUE]
    ELSE IF max # None /\ g.count + 1 >= max[1]
         THEN [g EXCEPT !.count = @ + 1, !.done = TRUE]
    ELSE [g EXCEPT !.count = @ + 1, !.yielded = Append(@, list[g.count + 1])]

\* one resumption of the generator limit(mirrors, maximum), which has taken
\* count items from mirrors so far: the next item is taken, if there is
\* one, and yielded unless a maximum is set and count now exceeds it
limit_next(list, max, g) ==
    IF g.done THEN g
    ELSE IF g.count = Len(list) THEN [g EXCEPT !.done = TRUE]
    ELSE IF max # None /\ g.count + 1 > max[1]
         THEN [g EXCEPT !.count = @ + 1, !.done = TRUE]
    ELSE [g EXCEPT !.count = @ + 1, !.yielded = Append(@, list[g.count + 1])]

limit_start == [count |-> 0, yielded |-> <<>>, done |-> FALSE]

RECURSIVE limit_run(_, _, _)
limit_run(list, max, g) ==
    IF g.done THEN g ELSE limit_run(list, max, limit_next(list, max, g))

\* tuple(limit(mirrors, maximum))
limit(list, max) == limit_run(list, max, limit_start).yielded

\* --------------------------------------------------- argparse.py, parsers.py

\* hours: timedelta(hours=int(string))
hours(string) == int(string)

\* posint: the integer, or ValueError when it is not greater than zero
posint(string) ==
    LET integer == int(string) IN
    IF integer.raised = "" /\ integer.value > 0 THEN integer
    ELSE [raised |-> "ValueError", value |-> 0]

\* parse_args with no option given: store_true options are False, the
\* others None
NoFlags ==
    [sort |-> None, reverse |-> FALSE, countries |-> None, protocols |-> None,
     max_age |-> None, match |-> None, nomatch |-> None, complete |-> FALSE,
     active |-> FALSE, ipv4 |-> FALSE, ipv6 |-> FALSE, isos |-> FALSE,
     limit |-> None, header |-> FALSE, output |-> None, config |-> None]

\* options parse_args accepts, as (dest, value) with the value its type
\* function returns: str.casefold for the lists, hours, posint (imported as
\* positive_int), Path; --match and --nomatch have no type and stay str
FlagChoices ==
    <<[field |-> "sort", value |-> Some(<<casefold("Score"), casefold("delay")>>)],
      [field |-> "sort", value |-> Some(<<casefold("country")>>)],
      [field |-> "sort", value |-> Some(<<casefold("bogus"), casefold("score")>>)],
      [field |-> "reverse", value |-> TRUE],
      [field |-> "limit", value |-> Some(posint("1").value)],
      [field |-> "limit", value |-> Some(posint("5").value)],
      [field |-> "header", value |-> TRUE],
      [field |-> "output", value |-> Some("/etc/pacman.d/mirrorlist")],
      [field |-> "countries", value |-> Some(<<casefold("DE")>>)],
      [field |-> "countries", value |-> Some(<<casefold("Germany"), casefold("us")>>)],
      [field |-> "countries", value |-> Some(<<casefold("")>>)],
      [field |-> "protocols", value |-> Some(<<casefold("HTTPS")>>)],
      [field |-> "max_age", value |-> Some(hours("24").value)],
      [field |-> "max_age", value |-> Some(hours("0").value)],
      [field |-> "match", value |-> Some([class |-> "str", pattern |-> "de"])],
      [field |-> "nomatch", value |-> Some([class |-> "str", pattern |-> "de"])],
      [field |-> "complete", value |-> TRUE],
      [field |-> "active", value |-> TRUE],
      [field |-> "ipv4", value |-> TRUE],
      [field |-> "ipv6", value |-> TRUE],
      [field |-> "isos", value |-> TRUE],
      [field |-> "match", value |-> Some([class |-> "str", pattern |-> "("])],
      [field |-> "protocols", value |-> Some(<<casefold("https"), casefold("rsync")>>)]>>

\* the choices that set a filter
FilterFlags == 9..21

\* the Namespace with one more option given (none for 0)
with_flag(a, i) ==
    IF i = 0 THEN a
    ELSE [a EXCEPT ![FlagChoices[i].field] = FlagChoices[i].value]

\* keys a configuration file may hold, with their raw text
FileChoices ==
    <<[section |-> "sorting", key |-> "sort", raw |-> <<"Score", ",", " ", "delay">>],
      [section |-> "sorting", key |-> "sort", raw |-> <<"country", " ", "bogus">>],
      [section |-> "sorting", key |-> "reverse", raw |-> "true"],
      [section |-> "sorting", key |-> "reverse", raw |-> "maybe"],
      [section |-> "output", key |-> "limit", raw |-> "0"],
      [section |-> "output", key |-> "limit", raw |-> "2"],
      [section |-> "output", key |-> "limit", raw |-> "many"],
      [section |-> "output", key |-> "header", raw |-> "yes"],
      [section |-> "output", key |-> "file", raw |-> "/etc/pacman.d/mirrorlist"],
      [section |-> "filtering", key |-> "countries", raw |-> <<"DE", ",", " ", "Germany">>],
      [section |-> "filtering", key |-> "countries", raw |-> <<",">>],
      [section |-> "filtering", key |-> "countries", raw |-> <<"us", " ", "De">>],
      [section |-> "filtering", key |-> "protocols", raw |-> <<"HTTPS">>],
      [section |-> "filtering", key |-> "max_age", raw |-> "24"],
      [section |-> "filtering", key |-> "max_age", raw |-> "0"],
      [section |-> "filtering", key |-> "match", raw |-> "^https"],
      [section |-> "filtering", key |-> "match", raw |-> "("],
      [section |-> "filtering", key |-> "nomatch", raw |-> "de"],
      [section |-> "filtering", key |-> "complete", raw |-> "on"],
      [section |-> "filtering", key |-> "active", raw |-> "1"],
      [section |-> "filtering", key |-> "ipv4", raw |-> "True"],
      [section |-> "filtering", key |-> "ipv6", raw |-> "true"],
      [section |-> "filtering", key |-> "isos", raw |-> "true"]>>

FilterKeys == 10..23

place(i) == <<FileChoices[i].section, FileChoices[i].key>>

\* parsers.configfile: the ConfigParser of a file that holds the choices
\* is (of distinct keys)
configfile(is) ==
    [p \in {place(i) : i \in is} |->
        FileChoices[CHOOSE i \in is : place(i) = p].raw]

\* the sets of at most n of the choices
RECURSIVE UpTo(_, _)
UpTo(choices, n) ==
    IF n = 0 THEN {{}}
    ELSE LET smaller == UpTo(choices, n - 1) IN
         smaller \cup {js \cup {i} : js \in smaller, i \in choices}

\* the files with at most n of the keys
Files(choices, n) ==
    {configfile(is) : is \in {js \in UpTo(choices, n) :
        \A i, j \in js : place(i) = place(j) => i = j}}

\* ------------------------------------------------------------- the feed

\* entries of the "urls" list of the mirror status JSON (age is set by
\* set_ages)
JSON1 ==
    [url |-> Some("https://mirror.de/arch/"), protocol |-> Some("https"),
     last_sync |-> Some("1970-01-05T03:00:00.000Z"),
     completion_pct |-> Some(100), delay |-> Some(5), duration_avg |-> Some(30),
     duration_stddev |-> Some(10), score |-> Some(150), active |-> Some(TRUE),
     country |-> Some("Germany"), country_code |-> Some("DE"),
     isos |-> Some(TRUE), ipv4 |-> Some(TRUE), ipv6 |-> Some(TRUE), age |-> None]

JSON2 ==
    [url |-> Some("https://mirror.us/arch/"), protocol |-> Some("https"),
     last_sync |-> Some("1970-01-04T04:00:00Z"),
     completion_pct |-> Some(100), delay |-> Some(3), duration_avg |-> Some(20),
     duration_stddev |-> Some(10), score |-> Some(150), active |-> Some(TRUE),
     country |-> Some("United States"), country_code |-> Some("US"),
     isos |-> Some(FALSE), ipv4 |-> Some(TRUE), ipv6 |-> Some(FALSE), age |-> None]

JSON3 ==
    [url |-> Some("rsync://de.mirror.org/"), protocol |-> Some("rsync"),
     last_sync |-> Some("1970-01-05T03:00:00.000Z"),
     completion_pct |-> Some(50), delay |-> Some(7), duration_avg |-> Some(40),
     duration_stddev |-> Some(20), score |-> None, active |-> Some(FALSE),
     country |-> Some("Germany"), country_code |-> Some("DE"),
     isos |-> Some(TRUE), ipv4 |-> Some(FALSE), ipv6 |-> Some(TRUE), age |-> None]

JSON4 ==
    [url |-> Some("http://mirror.org/arch/"), protocol |-> Some("http"),
     last_sync |-> None,
     completion_pct |-> None, delay |-> None, duration_avg |-> None,
     duration_stddev |-> None, score |-> None, active |-> Some(TRUE),
     country |-> Some(""), country_code |-> Some(""),
     isos |-> Some(FALSE), ipv4 |-> Some(TRUE), ipv6 |-> Some(FALSE), age |-> None]

JSON == <<JSON1, JSON2, JSON3, JSON4>>

\* the feeds: up to n entries, no entry twice
Feeds(n) ==
    {[i \in 1..Len(is) |-> JSON[is[i]]] :
        is \in {js \in UNION {[1..k -> 1..Len(JSON)] : k \in 0..n} :
                    \A i, j \in 1..Len(js) : js[i] = js[j] => i = j}}

\* mirrors a filter function may meet: the entries with their ages, and
\* entries that lack a field or hold an empty one
AGED == set_ages(JSON).value

MatchMirrors ==
    <<AGED[1], AGED[2], AGED[3], AGED[4],
      [AGED[1] EXCEPT !.country = None],
      [AGED[1] EXCEPT !.country_code = None],
      [AGED[1] EXCEPT !.country = None, !.country_code = None],
      [AGED[1] EXCEPT !.age = None],
      [AGED[2] EXCEPT !.url = None],
      [AGED[2] EXCEPT !.url = Some("")],
      [AGED[2] EXCEPT !.protocol = None, !.active = None, !.isos = None]>>

\* ----------------------------------------------------------------- mirrors.py

REPO_PATH == "$repo/os/$arch"

\* mirror_url: the path gets a closing "/" if it has none, then REPO_PATH
\* (every url of the model ends with "/")
mirror_url(url) == url \o REPO_PATH

\* Configuration.lines(): one "key = value" line per field that is not None
RECURSIVE config_lines(_, _)
config_lines(c, fields) ==
    IF fields = <<>> THEN <<>>
    ELSE (IF Head(fields) \in BoolFields \/ c[Head(fields)] # None
          THEN <<[marker |-> "#", text |-> Head(fields)]>> ELSE <<>>)
         \o config_lines(c, Tail(fields))

\* get_lines had it yielded the header after the Server lines
get_lines_header_last(list, c) ==
    [i \in 1..Len(list) |->
        [marker |-> "Server", text |-> mirror_url(list[i].url[1])]]
    \o (IF c.header
        THEN <<[marker |-> "#", text |-> "Mirror list generated with speculum"],
               [marker |-> "#", text |-> "with configuration:"]>>
             \o config_lines(c, Fields)
        ELSE <<>>)

\* get_lines: the header, if asked for, then one Server line per mirror
get_lines(list, c) ==
    (IF c.header
     THEN <<[marker |-> "#", text |-> "Mirror list generated with speculum"],
            [marker |-> "#", text |-> "with configuration:"]>>
          \o config_lines(c, Fields)
     ELSE <<>>)
    \o [i \in 1..Len(list) |->
            [marker |-> "Server", text |-> mirror_url(list[i].url[1])]]

\* ------------------------------------------------------------------ main.py

\* filter_pull had it put each survivor before the earlier ones
RECURSIVE filter_pull_backwards(_, _, _, _)
filter_pull_backwards(c, list, need, survivors) ==
    IF list = <<>> \/ (need # None /\ Len(survivors) = need[1])
    THEN [raised |-> "", value |-> survivors]
    ELSE LET result == match(c, Head(list)) IN
         IF result.raised # "" THEN [raised |-> result.raised, value |-> survivors]
         ELSE filter_pull_backwards(c, Tail(list), need,
                 IF result.value THEN <<Head(list)>> \o survivors ELSE survivors)

\* list(filter(partial(match, config), mirrors)), as far as the consumer
\* pulls: all survivors (need = None) or the first need[1] of them; match
\* is called on no mirror behind the last one pulled
RECURSIVE filter_pull(_, _, _, _)
filter_pull(c, list, need, survivors) ==
    IF list = <<>> \/ (need # None /\ Len(survivors) = need[1])
    THEN [raised |-> "", value |-> survivors]
    ELSE LET result == match(c, Head(list)) IN
         IF result.raised # "" THEN [raised |-> result.raised, value |-> survivors]
         ELSE filter_pull(c, Tail(list), need,
                 IF result.value THEN Append(survivors, Head(list)) ELSE survivors)

\* the values main returns when it fails: the feed could not be retrieved
\* (main.py:62), no mirror was found (main.py:86), the file could not be
\* written (main.py:98)
exit_no_feed == 1
exit_none_found == 1
exit_not_written == 1

\* mirrors = get_mirrors(): the feed with its ages; URLError or ValueError
\* is logged and main returns 1 (main.py:57-62, archlinux.py:60-66)
GetMirrors ==
    /\ pc = "get_mirrors"
    /\ \/ \E json \in Feeds(MaxMirrors) :
            LET aged == set_ages(json) IN
            /\ aged.raised = ""
            /\ feed' = aged.value
            /\ mirrors' = aged.value
            /\ pc' = "load"
            /\ UNCHANGED <<log, returned>>
       \/ /\ log' = Append(log, error("Could not download mirror list.", ""))
          /\ returned' = Some(exit_no_feed)
          /\ pc' = "exit"
          /\ UNCHANGED <<feed, mirrors>>
    /\ UNCHANGED <<args, config, raised, filtered, mirror, called, outcome,
                   keys, warned, maximum, gen, lines,
                   settings>>

\* config = Configuration.load(args) (main.py:69); a ValueError of
\* getboolean or getint is not caught
Load ==
    /\ pc = "load"
    /\ LET result == load(args) IN
         /\ raised' = result.raised
         /\ config' = result.value
         /\ pc' = IF result.raised = "" THEN "filter" ELSE "exit"
    /\ log' = log \o load_log(args)
    /\ UNCHANGED <<args, returned, feed, mirrors, filtered, mirror, called,
                   outcome, keys, warned, maximum, gen, lines,
                   settings>>

\* mirrors = filter(partial(match, config), mirrors) (main.py:71): lazy,
\* no mirror is matched yet
Filter ==
    /\ pc = "filter"
    /\ filtered' = FALSE
    /\ pc' = "sort"
    /\ UNCHANGED <<args, config, raised, returned, feed, mirrors, mirror,
                   called, outcome, keys, warned, log, maximum, gen, lines,
                   settings>>

\* if config.sort: sorted(...) first makes a list of the filter's survivors
\* (main.py:73-76)
BeginSort ==
    /\ pc = "sort"
    /\ IF truthy("sort", config.sort)
       THEN LET survivors == filter_pull(config, mirrors, None, <<>>) IN
            /\ raised' = survivors.raised
            /\ mirrors' = survivors.value
            /\ filtered' = TRUE
            /\ pc' = IF survivors.raised = "" THEN "get_key" ELSE "exit"
       ELSE /\ pc' = "limit"
            /\ UNCHANGED <<raised, mirrors, filtered>>
    /\ keys' = <<>>
    /\ warned' = {}
    /\ UNCHANGED <<args, config, returned, feed, mirror, called, outcome,
                   log, maximum, gen, lines,
                   settings>>

\* sorted calls key(mirror) once per mirror, in order, before it compares
GetKey ==
    /\ pc = "get_key"
    /\ Len(keys) < Len(mirrors)
    /\ LET state == get_key(config.sort[1], SORTING_DEFAULTS,
                            mirrors[Len(keys) + 1], warned, log) IN
         /\ keys' = Append(keys, state.key)
         /\ warned' = state.warned
         /\ log' = state.log
    /\ UNCHANGED <<pc, args, config, raised, returned, feed, mirrors, filtered,
                   mirror, called, outcome, maximum, gen, lines,
                   settings>>

\* mirrors = sorted(mirrors, key=key, reverse=args.reverse) (main.py:76)
Sorted ==
    /\ pc = "get_key"
    /\ Len(keys) = Len(mirrors)
    /\ LET result == sorted(mirrors, keys, args.reverse) IN
         /\ raised' = result.raised
         /\ mirrors' = result.value
         /\ pc' = IF result.raised = "" THEN "limit" ELSE "exit"
    /\ UNCHANGED <<args, config, returned, feed, filtered, mirror, called,
                   outcome, keys, warned, log, maximum, gen, lines,
                   settings>>

\* if config.limit: mirrors = limit(mirrors, config.limit); then
\* mirrors = tuple(mirrors) (main.py:78-82).  limit takes one item more
\* than it yields, so an unconsumed filter is pulled that far
Limit ==
    /\ pc = "limit"
    /\ LET limited == truthy("limit", config.limit)
           need == IF limited
                   THEN Some((IF config.limit[1] > 0 THEN config.limit[1] ELSE 0) + 1)
                   ELSE None
           source == IF filtered THEN [raised |-> "", value |-> mirrors]
                     ELSE filter_pull(config, mirrors, need, <<>>)
       IN /\ raised' = source.raised
          /\ mirrors' = IF source.raised = "" /\ limited
                        THEN limit(source.value, config.limit)
                        ELSE source.value
          /\ pc' = IF source.raised = "" THEN "report" ELSE "exit"
    /\ filtered' = TRUE
    /\ UNCHANGED <<args, config, returned, feed, mirror, called, outcome,
                   keys, warned, log, maximum, gen, lines,
                   settings>>

\* none_found had it not looked at the limit
none_found_whatever_limit(list, c) == list = <<>>

\* "not mirrors and config.limit != 0" (main.py:84)
none_found(list, c) == list = <<>> /\ c.limit # Some(0)

\* under_limit had the count been compared one too high
under_limit_off_by_one(list, c) == c.limit # None /\ Len(list) + 1 < c.limit[1]

\* "config.limit is not None and mirror_count < config.limit" (main.py:91)
under_limit(list, c) == c.limit # None /\ Len(list) < c.limit[1]

\* the checks on the result (main.py:84-92)
Report ==
    /\ pc = "report"
    /\ IF none_found(mirrors, config)
       THEN /\ log' = Append(log, error("No mirrors found.", ""))
            /\ returned' = Some(exit_none_found)
            /\ pc' = "exit"
       ELSE /\ log' = Append(log, info("Mirror list contains mirrors.", ""))
                      \o (IF under_limit(mirrors, config)
                          THEN <<warning("Filter yielded less mirrors than specified limit.", "")>>
                          ELSE <<>>)
            /\ pc' = "output"
            /\ UNCHANGED returned
    /\ UNCHANGED <<args, config, raised, feed, mirrors, filtered, mirror,
                   called, outcome, keys, warned, maximum, gen, lines,
                   settings>>

\* the lines go to the file, which may not be writable, or to stdout
\* (main.py:94-101, fileio.py:13-25)
Output ==
    /\ pc = "output"
    /\ lines' = get_lines(mirrors, config)
    /\ IF config.output # None
       THEN \E written \in BOOLEAN :
              /\ returned' = Some(IF written THEN 0 ELSE exit_not_written)
              /\ log' = IF written THEN log
                        ELSE Append(log, error("PermissionError", config.output[1]))
       ELSE /\ returned' = Some(0)
            /\ UNCHANGED log
    /\ pc' = "exit"
    /\ UNCHANGED <<args, config, raised, feed, mirrors, filtered, mirror,
                   called, outcome, keys, warned, maximum, gen, settings>>

\* ------------------------------------------------- calls of the functions

\* one filter function applied to a mirror under the loaded configuration
Call ==
    /\ pc = "filter"
    /\ called = ""
    /\ \E i \in 1..Len(MatchMirrors), f \in 1..Len(MATCH_FUNCS) :
         /\ mirror' = MatchMirrors[i]
         /\ called' = MATCH_FUNCS[f]
         /\ outcome' = call_match_func(MATCH_FUNCS[f], config, MatchMirrors[i])
    /\ UNCHANGED <<pc, args, config, raised, returned, feed, mirrors, filtered,
                   keys, warned, log, maximum, gen, lines,
                   settings>>

\* match(config, mirror)
CallMatch ==
    /\ pc = "filter"
    /\ called = ""
    /\ \E i \in 1..Len(MatchMirrors) :
         /\ mirror' = MatchMirrors[i]
         /\ called' = "match"
         /\ outcome' = match(config, MatchMirrors[i])
    /\ UNCHANGED <<pc, args, config, raised, returned, feed, mirrors, filtered,
                   keys, warned, log, maximum, gen, lines,
                   settings>>

\* one update: two neighbours of the Configurations still to merge become
\* the right one updated by the left one
Update ==
    /\ pc = "update"
    /\ \E i \in 1..(Len(settings.pending) - 1) :
         LET pending == settings.pending IN
         settings' = [settings EXCEPT !.pending =
                         SubSeq(pending, 1, i - 1)
                         \o <<resolve(pending[i], pending[i + 1])>>
                         \o SubSeq(pending, i + 2, Len(pending))]
    /\ UNCHANGED <<pc, args, config, raised, returned, feed, mirrors, filtered,
                   mirror, called, outcome, keys, warned, log, maximum, gen,
                   lines>>

\* next(generator) on the generator limit(mirrors, maximum) returned
LimitNext ==
    /\ pc = "limit_generator"
    /\ ~gen.done
    /\ gen' = limit_next(mirrors, maximum, gen)
    /\ UNCHANGED <<pc, args, config, raised, returned, feed, mirrors, filtered,
                   mirror, called, outcome, keys, warned, log, maximum, lines,
                   settings>>

\* ------------------------------------------------------- specifications

\* the values of the variables a specification does not use
Idle(used) ==
    /\ IF "args" \in used THEN TRUE ELSE args = NoFlags
    /\ IF "config" \in used THEN TRUE ELSE config = from_args(NoFlags)
    /\ raised = ""
    /\ returned = None
    /\ IF "feed" \in used THEN TRUE ELSE feed = <<>>
    /\ IF "mirrors" \in used THEN TRUE ELSE mirrors = <<>>
    /\ filtered = FALSE
    /\ mirror = JSON1
    /\ called = ""
    /\ outcome = Return(FALSE)
    /\ keys = <<>>
    /\ warned = {}
    /\ log = <<>>
    /\ IF "maximum" \in used THEN TRUE ELSE maximum = None
    /\ gen = limit_start
    /\ lines = <<>>
    /\ IF "settings" \in used THEN TRUE
       ELSE settings = [given |-> <<>>, pending |-> <<>>]

\* a run of main with neither --list-sortopts nor --list-countries: up to
\* two of the options that decide the stages, and a file or none
RunFlags == {0, 1, 3, 4, 5, 6, 7, 8, 9, 12, 13, 22}
RunKeys == {3, 4, 5, 6, 17}

RunArgs ==
    {[with_flag(with_flag(NoFlags, i), j) EXCEPT !.config = file] :
        i \in RunFlags, j \in RunFlags,
        file \in {None} \cup {Some(f) : f \in Files(RunKeys, 1)}}
    \cup
    \* a file, the two list filters a file run needs to keep a mirror, and
    \* one more option
    {[with_flag(with_flag(with_flag(NoFlags, 9), 23), i) EXCEPT !.config = Some(file)] :
        i \in RunFlags, file \in Files({3, 5, 6}, 1)}

Init ==
    /\ pc = "get_mirrors"
    /\ args \in RunArgs
    /\ Idle({"args"})

Next ==
    \/ GetMirrors
    \/ Load
    \/ Filter
    \/ BeginSort
    \/ GetKey
    \/ Sorted
    \/ Limit
    \/ Report
    \/ Output

Spec == Init /\ [][Next]_vars

\* Configuration.load on one option or none and a file of up to MaxKeys keys
LoadArgs ==
    {[with_flag(NoFlags, i) EXCEPT !.config = file] :
        i \in 0..Len(FlagChoices),
        file \in {None} \cup {Some(f) : f \in Files(1..Len(FileChoices), MaxKeys)}}

InitLoad ==
    /\ pc = "load"
    /\ args \in LoadArgs
    /\ Idle({"args"})

NextLoad == Load

SpecLoad == InitLoad /\ [][NextLoad]_vars

\* the filter functions under the configurations loaded from one filter
\* option or none and a file with one filter key or none
MatchArgs ==
    {[with_flag(NoFlags, i) EXCEPT !.config = file] :
        i \in FilterFlags \cup {0},
        file \in {None} \cup {Some(f) : f \in Files(FilterKeys, 1)}}

InitMatch ==
    /\ pc = "load"
    /\ args \in MatchArgs
    /\ Idle({"args"})

NextMatch ==
    \/ Load
    \/ Call
    \/ CallMatch

SpecMatch == InitMatch /\ [][NextMatch]_vars

\* the sort of main.py:73-76 on the survivors, by up to MaxSort options
SortOptions == {"score", "delay", "country", "last_sync", "bogus", "nope"}

SortLists == UNION {[1..n -> SortOptions] : n \in 1..MaxSort}

InitSort ==
    /\ pc = "get_key"
    /\ args \in {[NoFlags EXCEPT !.sort = Some(sorting), !.reverse = reverse] :
                    sorting \in SortLists, reverse \in BOOLEAN}
    /\ config = from_args(args)
    /\ feed \in {set_ages(json).value : json \in Feeds(MaxMirrors)}
    /\ mirrors = feed
    /\ Idle({"args", "config", "feed", "mirrors"})

NextSort ==
    \/ GetKey
    \/ Sorted

SpecSort == InitSort /\ [][NextSort]_vars

\* the generator of limit on up to MaxMirrors records and a maximum of
\* None or 0..MaxLimit
InitLimit ==
    /\ pc = "limit_generator"
    /\ mirrors \in {set_ages(json).value : json \in Feeds(MaxMirrors)}
    /\ maximum \in {None} \cup {Some(n) : n \in 0..MaxLimit}
    /\ Idle({"mirrors", "maximum"})

NextLimit == LimitNext

SpecLimit == InitLimit /\ [][NextLimit]_vars

\* Configuration.update on three Configurations that differ in a boolean,
\* a list and a number, each unset, set and falsy, or set and truthy
Settings ==
    {[from_args(NoFlags) EXCEPT !.reverse = boolean, !.countries = strings,
                                !.limit = number] :
        boolean \in BOOLEAN,
        strings \in {None, Some(<<>>), Some(<<"de">>), Some(<<"us">>)},
        number \in {None, Some(0), Some(1), Some(5)}}

InitUpdate ==
    /\ pc = "update"
    /\ \E a \in Settings, b \in Settings, c \in Settings :
         settings = [given |-> <<a, b, c>>, pending |-> <<a, b, c>>]
    /\ Idle({"settings"})

NextUpdate == Update

SpecUpdate == InitUpdate /\ [][NextUpdate]_vars

\* ------------------------------------------------------------------ claims

\* C1: when a configuration file is given, load resolves every field,
\* booleans included, to the flag's value whenever that value is not None
\* (a boolean flag is never None: store_true gives False), and to the file's
\* value otherwise; a flag value that is set but falsy still wins
C1_FlagWinsWhenSet ==
    (pc = "filter" /\ args.config # None) =>
        LET flags == from_args(args)
            file == from_parser(args.config[1]).value
        IN \A i \in 1..Len(Fields) :
              config[Fields[i]] = IF \/ Fields[i] \in BoolFields
                                     \/ flags[Fields[i]] # None
                                  THEN flags[Fields[i]]
                                  ELSE file[Fields[i]]

\* C2: when no filter setting is supplied, by the flags alone or by the
\* flags and a file that leaves the filter keys out, match(config, mirror)
\* is true for every mirror
C2_NoFilterNoPredicate ==
    (/\ called = "match"
     /\ \A i \in 1..Len(Fields) : args[Fields[i]] = NoFlags[Fields[i]]
     /\ args.config # None =>
            \A p \in DOMAIN args.config[1] : p[1] # "filtering")
    => outcome = Return(TRUE)

\* C3: once the generator of limit(records, maximum) is exhausted it has
\* yielded the prefix of records of length min(len(records), maximum), all
\* of records when maximum is None, and before that a prefix of it; the
\* tuple of limit(records, maximum) is that prefix
C3_LimitIsPrefix ==
    pc = "limit_generator" =>
        LET length == IF maximum = None \/ maximum[1] > Len(mirrors)
                      THEN Len(mirrors) ELSE maximum[1]
            prefix == SubSeq(mirrors, 1, length)
        IN /\ Len(gen.yielded) <= length
           /\ gen.yielded = SubSeq(prefix, 1, Len(gen.yielded))
           /\ gen.done => gen.yielded = prefix
           /\ limit(mirrors, maximum) = prefix

\* C3 happens: a generator that stopped at its maximum, short of the records
C3_Truncated ==
    /\ pc = "limit_generator"
    /\ gen.done
    /\ maximum # None
    /\ 0 < maximum[1]
    /\ maximum[1] < Len(mirrors)
    /\ Len(gen.yielded) = maximum[1]

\* C4, as stated: with a countries setting present, match_country accepts a
\* mirror exactly when the casefold of its country or of its country_code,
\* whichever it has, is one of the requested strings
C4_CountryMembership ==
    (called = "match_country" /\ config.countries # None) =>
        outcome = Return(
            \/ /\ mirror.country # None
               /\ in(casefold(mirror.country[1]), config.countries[1])
            \/ /\ mirror.country_code # None
               /\ in(casefold(mirror.country_code[1]), config.countries[1]))

\* C4, amended: with a countries setting present, match_country accepts a
\* mirror exactly when its country is not empty and the casefold of it is
\* requested, or its country_code is not empty and the casefold of it is
\* requested; a mirror whose country and country_code are both missing or
\* empty is rejected by every countries setting
C4_NonEmptyCountryMembership ==
    (called = "match_country" /\ config.countries # None) =>
        /\ outcome = Return(
            \/ /\ mirror.country # None
               /\ mirror.country[1] # ""
               /\ in(casefold(mirror.country[1]), config.countries[1])
            \/ /\ mirror.country_code # None
               /\ mirror.country_code[1] # ""
               /\ in(casefold(mirror.country_code[1]), config.countries[1]))
        /\ (/\ mirror.country \in {None, Some("")}
            /\ mirror.country_code \in {None, Some("")})
           => outcome = Return(FALSE)

\* C4 happens: a mirror accepted by its country_code alone, under a countries
\* setting read from a file in another case
C4_AcceptedByCode ==
    /\ called = "match_country"
    /\ args.countries = None
    /\ config.countries # None
    /\ mirror.country = None
    /\ mirror.country_code # None
    /\ ~in(mirror.country_code[1], config.countries[1])
    /\ outcome = Return(TRUE)

\* C5: with a nomatch pattern set (a compiled one, as the file gives it),
\* match_regex_inv keeps a mirror exactly when the mirror has a url and the
\* pattern is not found in it
C5_NomatchKeepsNonMatching ==
    (/\ called = "match_regex_inv"
     /\ config.nomatch # None
     /\ config.nomatch[1].class = "Pattern") =>
        outcome = Return(
            /\ mirror.url # None
            /\ mirror.url[1] # ""
            /\ ~search(config.nomatch[1].pattern, mirror.url[1]))

\* C6: with max_age set, match_max_age accepts a mirror exactly when the
\* mirror has an age and the age is at most max_age
C6_MaxAgeKeepsYoung ==
    (called = "match_max_age" /\ config.max_age # None) =>
        outcome = Return(mirror.age # None /\ mirror.age[1] <= config.max_age[1])

\* C7: with max_age set, a run that gets past the filter has no mirror
\* without last_sync in its result, and a run whose feed holds only mirrors
\* without last_sync does not end in an exception
C7_NoLastSyncExcluded ==
    (/\ pc \in {"report", "output", "exit"}
     /\ config.max_age # None
     /\ feed # <<>>)
    => /\ raised = "" => \A i \in 1..Len(mirrors) : mirrors[i].last_sync # None
       /\ (\A i \in 1..Len(feed) : feed[i].last_sync = None) => raised = ""

\* C8: after an ascending sort by two fields of the table, of any two
\* mirrors of the result that both hold both fields and are equal in the
\* first, the one with the smaller second field comes first
C8_LexicographicOrder ==
    (/\ pc = "limit"
     /\ raised = ""
     /\ ~args.reverse
     /\ config.sort # None
     /\ Len(config.sort[1]) = 2
     /\ \A n \in 1..2 : config.sort[1][n] \in DOMAIN SORTING_DEFAULTS)
    => LET f1 == config.sort[1][1]
           f2 == config.sort[1][2]
       IN \A i, j \in 1..Len(mirrors) :
            (/\ i < j
             /\ \A n \in {i, j} : mirrors[n][f1] # None /\ mirrors[n][f2] # None
             /\ py_eq(field_value(mirrors[i], f1), field_value(mirrors[j], f1)))
            => ~py_lt(field_value(mirrors[j], f2), field_value(mirrors[i], f2))

\* C9: the sort is stable, ascending and descending: two mirrors of the
\* feed whose keys are equal are in the sorted result in their order in the
\* feed
C9_SortIsStable ==
    (pc = "limit" /\ raised = "" /\ Len(keys) = Len(feed)) =>
        \A i, j \in 1..Len(feed) :
            (i < j /\ first_difference(keys[i], keys[j]) = 0) =>
                \E a, b \in 1..Len(mirrors) :
                    a < b /\ mirrors[a] = feed[i] /\ mirrors[b] = feed[j]

\* C9 happens: a descending sort that moved a mirror and met two equal keys
C9_ReverseSortWithTies ==
    /\ pc = "limit"
    /\ raised = ""
    /\ args.reverse
    /\ Len(keys) = Len(feed)
    /\ mirrors # feed
    /\ \E i, j \in 1..Len(feed) : i < j /\ first_difference(keys[i], keys[j]) = 0

\* C10: every key the key function returns has one component per requested
\* field that is in the table of defaults, and once the function has been
\* called the log holds the warning for each requested name that is not in
\* the table exactly once, however many mirrors it has been called on
C10_UnknownFieldWarnedOnce ==
    (pc \in {"get_key", "limit"} /\ config.sort # None) =>
        LET sorting == config.sort[1]
            unknown == {sorting[n] : n \in 1..Len(sorting)} \ DOMAIN SORTING_DEFAULTS
        IN /\ \A i \in 1..Len(keys) :
                Len(keys[i]) = Cardinality({n \in 1..Len(sorting) :
                                    sorting[n] \in DOMAIN SORTING_DEFAULTS})
           /\ \A option \in unknown :
                Cardinality({k \in 1..Len(log) :
                    log[k] = warning("Invalid sorting key", option)})
                = IF keys = <<>> THEN 0 ELSE 1
           /\ \A k \in 1..Len(log) : log[k].arg \in unknown

\* C10 happens: the key function called on two mirrors with a name of the
\* table and a name that is not in it
C10_TwoCallsOneWarning ==
    /\ pc = "get_key"
    /\ Len(keys) >= 2
    /\ \E n \in 1..Len(config.sort[1]) : config.sort[1][n] \in DOMAIN SORTING_DEFAULTS
    /\ \E n \in 1..Len(config.sort[1]) : config.sort[1][n] \notin DOMAIN SORTING_DEFAULTS
    /\ Len(log) = 1
    /\ \A i \in 1..Len(keys) : Len(keys[i]) = 1

C14_MalformedAborts ==
    pc \in {"filter", "sort", "get_key", "limit", "report", "output"}
    => /\ \A key \in {"match", "nomatch"} :
            /\ args[key] # None => re_valid(args[key][1].pattern)
            /\ (args.config # None /\ <<"filtering", key>> \in DOMAIN args.config[1])
               => re_valid(args.config[1][<<"filtering", key>>])
       /\ args.config # None => from_parser(args.config[1]).raised = ""

\* C15: in a run with no sort field, reverse or not, the limiter is handed
\* the feed behind the filter, unsorted, and the result of the run is the
\* mirrors of the feed that match, in feed order, cut to the limit if there
\* is one
C15_FeedOrderKept ==
    LET survivors == SelectSeq(feed, LAMBDA m : match(config, m).value)
        length == IF truthy("limit", config.limit) /\ config.limit[1] < Len(survivors)
                  THEN config.limit[1] ELSE Len(survivors)
    IN /\ (pc = "limit" /\ ~truthy("sort", config.sort)) =>
              ~filtered /\ mirrors = feed
       /\ (/\ pc \in {"report", "output", "exit"}
           /\ filtered
           /\ raised = ""
           /\ ~truthy("sort", config.sort)
           /\ \A i \in 1..Len(feed) : match(config, feed[i]).raised = "")
          => mirrors = SubSeq(survivors, 1, length)

\* C15 happens: reverse is set, no sort field, and the first and third of
\* three mirrors survive a countries filter
C15_FirstAndThird ==
    /\ pc = "report"
    /\ args.reverse
    /\ ~truthy("sort", config.sort)
    /\ config.countries = Some(<<"de">>)
    /\ Len(feed) = 3
    /\ mirrors = <<feed[1], feed[3]>>

\* C16: the key get_key returns for a mirror has, for the requested fields
\* that are in the table, in the order requested, the mirror's own value of
\* the field where the mirror has one and the table's default where not
C16_KeyHoldsValues ==
    (pc \in {"get_key", "limit"} /\ config.sort # None) =>
        LET known == SelectSeq(config.sort[1],
                               LAMBDA option : option \in DOMAIN SORTING_DEFAULTS)
        IN \A i \in 1..Len(keys) :
              keys[i] = [n \in 1..Len(known) |->
                            IF feed[i][known[n]] # None
                            THEN field_value(feed[i], known[n])
                            ELSE SORTING_DEFAULTS[known[n]]]

\* C17: a run sorts in the direction of the resolved reverse setting: when
\* the resolved reverse is true, by the flag or by the file, the result of
\* the sort is the survivors in descending order of their keys
C17_ResolvedReverseSorts ==
    (/\ pc = "limit"
     /\ filtered
     /\ raised = ""
     /\ config.reverse)
    => LET survivors == filter_pull(config, feed, None, <<>>).value IN
       mirrors = sorted(survivors, keys, TRUE).value

\* C18: in a run whose resolved limit is set, 0 included, the mirrors handed
\* to get_lines, and the mirror lines emitted, are at most the limit
C18_AtMostLimit ==
    (/\ pc \in {"report", "output", "exit"}
     /\ filtered
     /\ raised = ""
     /\ config.limit # None)
    => /\ Len(mirrors) <= config.limit[1]
       /\ Cardinality({n \in 1..Len(lines) : lines[n].marker = "Server"})
          <= config.limit[1]

C20_LimitStreams ==
    pc = "limit_generator" =>
        /\ gen.count <= Len(gen.yielded) + 1
        /\ gen.count <= Len(mirrors)
        /\ maximum # None => gen.count <= maximum[1] + 1

\* C20 happens: a generator that stopped on record N + 1 of a longer source
C20_StoppedBeforeTheEnd ==
    /\ pc = "limit_generator"
    /\ gen.done
    /\ maximum # None
    /\ gen.count = maximum[1] + 1
    /\ gen.count < Len(mirrors)

\* C21: match(config, mirror) has the same outcome in every order of
\* MATCH_FUNCS: the same decision, and no order raises where another
\* returns a decision
C21_OrderIndependent ==
    called = "match" =>
        \A order \in Orders : all(order, config, mirror) = outcome

C23_ServerLinePerMirror ==
    LET servers == SelectSeq(lines, LAMBDA line : line.marker = "Server")
        comments == SelectSeq(lines, LAMBDA line : line.marker = "#")
        emitted ==
            \/ returned = Some(0)
            \/ /\ log # <<>>
               /\ log[Len(log)].message = "PermissionError"
    IN IF emitted
       THEN /\ Len(servers) = Len(mirrors)
            /\ \A i \in 1..Len(servers) :
                  servers[i].text = mirror_url(mirrors[i].url[1])
            /\ lines = comments \o servers
            /\ config.header => Len(comments) >= 2
            /\ ~config.header => comments = <<>>
       ELSE lines = <<>>

\* C23 happens: a header and the Server lines of two mirrors or more, not in
\* the order of the feed
C23_HeaderThenServers ==
    /\ returned = Some(0)
    /\ config.header
    /\ Len(mirrors) >= 2
    /\ mirrors # feed
    /\ Len(lines) > Len(mirrors) + 2
    /\ lines[1].marker = "#"
    /\ lines[Len(lines)].marker = "Server"

====
